---- MODULE Spec2Model ----
(***************************************************************************)
(* FLYLOG (PakePlus-Android): the statistics derivation of App.tsx (the    *)
(* `stats` useMemo block), the log collection it is derived from, its      *)
(* storage, and the recorder of FlightRecorder.tsx: the handlers that      *)
(* construct log entries, the timer and the long-press buttons.            *)
(*                                                                         *)
(* Time.  An instant is an integer number of hours since 1970-01-01T00:00Z *)
(* (what Date.getTime() holds, at hour resolution).  A time zone is the    *)
(* record [std, dstEnd]: the local offset from UTC is std + 1 before the   *)
(* instant dstEnd (daylight time) and std from dstEnd on.  All Date        *)
(* getters and the date-fns functions the code calls read LOCAL fields;    *)
(* toISOString and the parse of a date-only string work in UTC.            *)
(***************************************************************************)
EXTENDS Integers, Sequences, FiniteSets, TLC

VARIABLES zone, clock, quota, view, logs, storage, stats, statsNow, recorder, press

vars == <<zone, clock, quota, view, logs, storage, stats, statsNow, recorder, press>>

(***************************************************************************)
(* Calendar arithmetic (proleptic Gregorian), as the JavaScript Date       *)
(* object computes its year / month / date fields from a day number.       *)
(***************************************************************************)
HoursPerDay == 24

\* Civil date of a day number (days since 1970-01-01): [y, m, d], m in 1..12.
CivilFromDays(n) ==
    LET z   == n + 719468
        era == z \div 146097
        doe == z - era * 146097
        yoe == (doe - doe \div 1460 + doe \div 36524 - doe \div 146096) \div 365
        doy == doe - (365 * yoe + yoe \div 4 - yoe \div 100)
        mp  == (5 * doy + 2) \div 153
        d   == doy - (153 * mp + 2) \div 5 + 1
        m   == IF mp < 10 THEN mp + 3 ELSE mp - 9
        y   == yoe + era * 400 + (IF m <= 2 THEN 1 ELSE 0)
    IN  [y |-> y, m |-> m, d |-> d]

\* Day number of a civil date.
DaysFromCivil(c) ==
    LET y   == IF c.m <= 2 THEN c.y - 1 ELSE c.y
        era == y \div 400
        yoe == y - era * 400
        mp  == IF c.m > 2 THEN c.m - 3 ELSE c.m + 9
        doy == (153 * mp + 2) \div 5 + c.d - 1
        doe == yoe * 365 + yoe \div 4 - yoe \div 100 + doy
    IN  era * 146097 + doe - 719468

(***************************************************************************)
(* The Date object: local fields of an instant in a zone.                  *)
(***************************************************************************)
\* Date.prototype.getTimezoneOffset, negated, in hours.
Offset(z, t) == IF t < z.dstEnd THEN z.std + 1 ELSE z.std

\* The local wall-clock reading of an instant, in hours.
LocalHours(z, t) == t + Offset(z, t)

\* Day number of the local calendar date (getFullYear/getMonth/getDate).
LocalDay(z, t) == LocalHours(z, t) \div HoursPerDay

\* getHours().
LocalHour(z, t) == LocalHours(z, t) % HoursPerDay

\* getFullYear().
getFullYear(z, t) == CivilFromDays(LocalDay(z, t)).y

\* getMonth() (1-based here).
getMonth(z, t) == CivilFromDays(LocalDay(z, t)).m

\* getDay(): 0 = Sunday .. 6 = Saturday (1970-01-01 was a Thursday).
getDay(z, t) == (LocalDay(z, t) + 4) % 7

\* The instant of a local wall-clock reading: new Date(y, m, d, h) / setHours.
\* When the reading occurs twice (the repeated hour at dstEnd) the first,
\* daylight-time, occurrence is taken, as the engines do.
FromLocal(z, localHours) ==
    IF localHours - (z.std + 1) < z.dstEnd
    THEN localHours - (z.std + 1)
    ELSE localHours - z.std

(***************************************************************************)
(* date-fns, as imported at App.tsx:8.  Every function reads local fields. *)
(***************************************************************************)
Sign(n) == IF n < 0 THEN -1 ELSE IF n > 0 THEN 1 ELSE 0

Abs(n) == IF n < 0 THEN -n ELSE n

\* compareLocalAsc: the sign of the first differing local field.
compareLocalAsc(z, left, right) ==
    IF LocalDay(z, left) # LocalDay(z, right)
    THEN Sign(LocalDay(z, left) - LocalDay(z, right))
    ELSE Sign(LocalHour(z, left) - LocalHour(z, right))

\* differenceInCalendarDays: local midnights crossed.
differenceInCalendarDays(z, left, right) == LocalDay(z, left) - LocalDay(z, right)

\* differenceInDays: full local days between two instants, truncated
\* towards zero.  dateLeft is moved back by the calendar difference with
\* setDate (which keeps its wall-clock time) and compared again.
differenceInDays(z, left, right) ==
    LET sign       == compareLocalAsc(z, left, right)
        difference == Abs(differenceInCalendarDays(z, left, right))
        moved      == FromLocal(z, (LocalDay(z, left) - sign * difference) * HoursPerDay
                                    + LocalHour(z, left))
        isLastDayNotFull == IF compareLocalAsc(z, moved, right) = -sign THEN 1 ELSE 0
    IN  sign * (difference - isLastDayNotFull)

isSameDay(z, a, b) == LocalDay(z, a) = LocalDay(z, b)

\* startOfWeek with weekStartsOn, as the local day number of the week's start.
startOfWeek(z, t, weekStartsOn) ==
    LET day  == getDay(z, t)
        diff == (IF day < weekStartsOn THEN 7 ELSE 0) + day - weekStartsOn
    IN  LocalDay(z, t) - diff

isSameWeek(z, a, b, weekStartsOn) ==
    startOfWeek(z, a, weekStartsOn) = startOfWeek(z, b, weekStartsOn)

isSameMonth(z, a, b) ==
    /\ getFullYear(z, a) = getFullYear(z, b)
    /\ getMonth(z, a) = getMonth(z, b)

(***************************************************************************)
(* Array helpers.                                                          *)
(***************************************************************************)
RECURSIVE InsertBy(_, _, _)
\* Insert x into the sorted sequence s after every element e with ~Before(x, e).
InsertBy(Before(_, _), x, s) ==
    IF s = <<>> THEN <<x>>
    ELSE IF Before(x, Head(s)) THEN <<x>> \o s
    ELSE <<Head(s)>> \o InsertBy(Before, x, Tail(s))

RECURSIVE SortBy(_, _)
\* Array.prototype.sort with a comparator: a stable sort.
SortBy(Before(_, _), s) ==
    IF s = <<>> THEN <<>>
    ELSE LET rest == SortBy(Before, SubSeq(s, 1, Len(s) - 1))
         IN  InsertBy(Before, s[Len(s)], rest)

\* Array.prototype.reverse.
Reverse(s) == [i \in 1..Len(s) |-> s[Len(s) + 1 - i]]

RECURSIVE Dedupe(_)
\* Array.from(new Set(s)): first occurrences, in insertion order.
Dedupe(s) ==
    IF s = <<>> THEN <<>>
    ELSE LET init == Dedupe(SubSeq(s, 1, Len(s) - 1))
             x    == s[Len(s)]
         IN  IF \E i \in 1..Len(init) : init[i] = x THEN init ELSE Append(init, x)

\* Infinity, as the integer above every count and every number of days.
Infinity == 2147483647

\* Math.max(...s) / Math.min(...s); without arguments they return
\* -Infinity and Infinity.
MathMax(s) ==
    IF s = <<>> THEN -Infinity
    ELSE CHOOSE x \in {s[i] : i \in 1..Len(s)} : \A j \in 1..Len(s) : s[j] <= x

MathMin(s) ==
    IF s = <<>> THEN Infinity
    ELSE CHOOSE x \in {s[i] : i \in 1..Len(s)} : \A j \in 1..Len(s) : x <= s[j]

\* Array.prototype.map.
Map(F(_), s) == [i \in 1..Len(s) |-> F(s[i])]

\* Array.prototype.filter.
Filter(P(_), s) == SelectSeq(s, P)

(***************************************************************************)
(* Number: the non-negative IEEE-754 doubles the durations and their sums  *)
(* take.  The value of a double x is the fixed-point numeral x * 2^FracBits *)
(* written as Limbs digits of base 2^LimbBits, least significant first.    *)
(* Every double the model meets lies in [2^-14, 2^16) or is 0, so its      *)
(* MantissaBits significant bits fit the numeral exactly and equal doubles *)
(* have equal numerals.                                                    *)
(***************************************************************************)
LimbBits == 16

Limbs == 6

FracBits == 80

MantissaBits == 53

\* 2^n for n in 0..LimbBits.
Pow2(n) ==
    <<1, 2, 4, 8, 16, 32, 64, 128, 256, 512, 1024, 2048, 4096, 8192, 16384, 32768, 65536>>[n + 1]

\* The double 0.
DZero == <<0, 0, 0, 0, 0, 0>>

\* The exact sum of two numerals, digit by digit with the carries.
BigAdd(a, b) ==
    LET t1 == a[1] + b[1]
        t2 == a[2] + b[2] + (t1 \div 65536)
        t3 == a[3] + b[3] + (t2 \div 65536)
        t4 == a[4] + b[4] + (t3 \div 65536)
        t5 == a[5] + b[5] + (t4 \div 65536)
        t6 == a[6] + b[6] + (t5 \div 65536)
    IN  <<t1 % 65536, t2 % 65536, t3 % 65536, t4 % 65536, t5 % 65536, t6 % 65536>>

\* Long division of a numeral by the small integer c, from the top digit
\* down: [q |-> the quotient, r |-> the rest].
BigDiv(a, c) ==
    LET t6 == a[6]
        t5 == (t6 % c) * 65536 + a[5]
        t4 == (t5 % c) * 65536 + a[4]
        t3 == (t4 % c) * 65536 + a[3]
        t2 == (t3 % c) * 65536 + a[2]
        t1 == (t2 % c) * 65536 + a[1]
    IN  [q |-> <<t1 \div c, t2 \div c, t3 \div c, t4 \div c, t5 \div c, t6 \div c>>,
         r |-> t1 % c]

\* Bit i (0 is the least significant) of the numeral a.
BitAt(a, i) == (a[(i \div LimbBits) + 1] \div Pow2(i % LimbBits)) % 2

\* The bits below bit n of a are all 0.
LowBitsZero(a, n) ==
    /\ \A j \in 1..(n \div LimbBits) : a[j] = 0
    /\ (n \div LimbBits) + 1 <= Limbs => (a[(n \div LimbBits) + 1] % Pow2(n % LimbBits)) = 0

\* a with the bits below bit n cleared.
ClearLowBits(a, n) ==
    [j \in 1..Limbs |->
        IF j < (n \div LimbBits) + 1 THEN 0
        ELSE IF j = (n \div LimbBits) + 1 THEN a[j] - (a[j] % Pow2(n % LimbBits))
        ELSE a[j]]

\* The numeral of 2^n.
BigPow2(n) == [j \in 1..Limbs |-> IF j = (n \div LimbBits) + 1 THEN Pow2(n % LimbBits) ELSE 0]

\* The number of bits of a digit v > 0 up to its leading 1.
DigitLength(v) ==
    IF v < 256
    THEN IF v < 16 THEN (IF v < 4 THEN (IF v < 2 THEN 1 ELSE 2) ELSE (IF v < 8 THEN 3 ELSE 4))
         ELSE (IF v < 64 THEN (IF v < 32 THEN 5 ELSE 6) ELSE (IF v < 128 THEN 7 ELSE 8))
    ELSE IF v < 4096 THEN (IF v < 1024 THEN (IF v < 512 THEN 9 ELSE 10) ELSE (IF v < 2048 THEN 11 ELSE 12))
         ELSE (IF v < 16384 THEN (IF v < 8192 THEN 13 ELSE 14) ELSE (IF v < 32768 THEN 15 ELSE 16))

\* The number of bits of a up to its leading 1 (0 for the numeral 0).
BitLength(a) ==
    IF a[6] # 0 THEN 5 * LimbBits + DigitLength(a[6])
    ELSE IF a[5] # 0 THEN 4 * LimbBits + DigitLength(a[5])
    ELSE IF a[4] # 0 THEN 3 * LimbBits + DigitLength(a[4])
    ELSE IF a[3] # 0 THEN 2 * LimbBits + DigitLength(a[3])
    ELSE IF a[2] # 0 THEN LimbBits + DigitLength(a[2])
    ELSE IF a[1] # 0 THEN DigitLength(a[1])
    ELSE 0

\* Round to nearest, ties to even, at MantissaBits significant bits.  a is
\* the part of the exact value the numeral holds; sticky tells that the
\* exact value has a non-zero part below the numeral.
RoundToDouble(a, sticky) ==
    LET cut == BitLength(a) - MantissaBits
    IN  IF cut <= 0 \/ (~sticky /\ LowBitsZero(a, cut)) THEN a
        ELSE LET half  == BitAt(a, cut - 1) = 1
                 below == sticky \/ ~LowBitsZero(a, cut - 1)
                 odd   == BitAt(a, cut) = 1
                 down  == ClearLowBits(a, cut)
             IN  IF half /\ (below \/ odd) THEN BigAdd(down, BigPow2(cut)) ELSE down

\* a + b on doubles.
Float64Add(a, b) == RoundToDouble(BigAdd(a, b), FALSE)

\* a / c on doubles, c a positive integer below 2^15.
Float64DivInt(a, c) ==
    LET d == BigDiv(a, c)
    IN  RoundToDouble(d.q, d.r # 0)

\* a < b on doubles.
Float64Less(a, b) ==
    \E j \in 1..Limbs : a[j] < b[j] /\ \A k \in (j + 1)..Limbs : a[k] = b[k]

\* parseFloat of the decimal numeral tenThousandths / 10000 that toFixed(4)
\* and JSON.stringify write: the nearest double, kept with its numeral.
parseFloat(tenThousandths) ==
    LET d == BigDiv([j \in 1..Limbs |->
                        IF j = (FracBits \div LimbBits) + 1 THEN tenThousandths ELSE 0], 10000)
    IN  [numeral |-> tenThousandths, value |-> RoundToDouble(d.q, d.r # 0)]

(***************************************************************************)
(* FlightLog (types.ts:11-24).  date is the instant the ISO string names,  *)
(* flightTime is the double parseFloat(hours.toFixed(4)): its value, kept   *)
(* with the number of ten-thousandths of the decimal numeral that names it. *)
(* id, ratings, mood, notes, createdAt and the legacy fields are never     *)
(* read by the statistics and are left out.                                *)
(***************************************************************************)
FlightType == {"single", "multi", "night"}

\* new Date(l.date).toISOString().split('T')[0]: the UTC calendar date.
\* The string "YYYY-MM-DD" is held as its three numbers.
toISODateString(t) == CivilFromDays(t \div HoursPerDay)

\* new Date("YYYY-MM-DD"): a date-only string is parsed as UTC midnight.
parseDateOnly(key) == DaysFromCivil(key) * HoursPerDay

\* The default sort order of "YYYY-MM-DD" strings (code-unit order).
StringBefore(a, b) ==
    \/ a.y < b.y
    \/ a.y = b.y /\ a.m < b.m
    \/ a.y = b.y /\ a.m = b.m /\ a.d < b.d

\* validLogs without its filter: the incidents stay among the normal entries.
validLogs_KeepsIncidents(ls) == ls

\* App.tsx:33
validLogs(ls) == Filter(LAMBDA l : l.type # "night", ls)

\* App.tsx:34
nightLogs(ls) == Filter(LAMBDA l : l.type = "night", ls)

\* sortedLogs without the sort: the entries in the order of the collection.
sortByDateDesc_Unsorted(ls) == ls

\* App.tsx:37 and :39, the comparator b - a on getTime().
sortByDateDesc(ls) == SortBy(LAMBDA a, b : a.date > b.date, ls)

\* getCounts with the week starting on Sunday (the default of isSameWeek).
getCounts_SundayWeek(z, now, currentYear, dataset) ==
    [today |-> Len(Filter(LAMBDA l : isSameDay(z, l.date, now), dataset)),
     week  |-> Len(Filter(LAMBDA l : isSameWeek(z, l.date, now, 0), dataset)),
     month |-> Len(Filter(LAMBDA l : isSameMonth(z, l.date, now), dataset)),
     year  |-> Len(Filter(LAMBDA l : getFullYear(z, l.date) = currentYear, dataset)),
     total |-> Len(dataset)]

\* App.tsx:42-48
getCounts(z, now, currentYear, dataset) ==
    [today |-> Len(Filter(LAMBDA l : isSameDay(z, l.date, now), dataset)),
     week  |-> Len(Filter(LAMBDA l : isSameWeek(z, l.date, now, 1), dataset)),
     month |-> Len(Filter(LAMBDA l : isSameMonth(z, l.date, now), dataset)),
     year  |-> Len(Filter(LAMBDA l : getFullYear(z, l.date) = currentYear, dataset)),
     total |-> Len(dataset)]

RECURSIVE sumHours(_)
\* App.tsx:55, reduce((acc, curr) => acc + curr.flightTime, 0).
sumHours(logList) ==
    IF logList = <<>> THEN DZero
    ELSE Float64Add(sumHours(SubSeq(logList, 1, Len(logList) - 1)),
                    logList[Len(logList)].flightTime.value)

\* App.tsx:57-60
hoursByPeriod(z, now, currentYear, sortedLogs) ==
    [today |-> sumHours(Filter(LAMBDA l : isSameDay(z, l.date, now), sortedLogs)),
     week  |-> sumHours(Filter(LAMBDA l : isSameWeek(z, l.date, now, 1), sortedLogs)),
     month |-> sumHours(Filter(LAMBDA l : isSameMonth(z, l.date, now), sortedLogs)),
     year  |-> sumHours(Filter(LAMBDA l : getFullYear(z, l.date) = currentYear, sortedLogs))]

\* App.tsx:62-63
avgDuration(valid) ==
    IF Len(valid) > 0 THEN Float64DivInt(sumHours(valid), Len(valid)) ELSE DZero

\* App.tsx:66-68, Math.max / Math.min on doubles.
maxDuration(valid) ==
    LET durations == Map(LAMBDA l : l.flightTime, valid)
    IN  IF Len(durations) > 0
        THEN (CHOOSE x \in {durations[i] : i \in 1..Len(durations)} :
                \A j \in 1..Len(durations) : ~Float64Less(x.value, durations[j].value)).value
        ELSE DZero

minDuration(valid) ==
    LET durations == Map(LAMBDA l : l.flightTime, valid)
    IN  IF Len(durations) > 0
        THEN (CHOOSE x \in {durations[i] : i \in 1..Len(durations)} :
                \A j \in 1..Len(durations) : ~Float64Less(durations[j].value, x.value)).value
        ELSE DZero

\* App.tsx:70-72
daysSinceLastFlight(z, now, sortedLogs) ==
    IF Len(sortedLogs) > 0 THEN differenceInDays(z, now, sortedLogs[1].date) ELSE 0

\* daysSinceLastIncident with the sentinel of daysSinceLastFlight.
daysSinceLastIncident_ZeroSentinel(z, now, sortedNightLogs) ==
    IF Len(sortedNightLogs) > 0 THEN differenceInDays(z, now, sortedNightLogs[1].date)
    ELSE 0

\* App.tsx:75-77
daysSinceLastIncident(z, now, sortedNightLogs) ==
    IF Len(sortedNightLogs) > 0 THEN differenceInDays(z, now, sortedNightLogs[1].date)
    ELSE -1

\* uniqueDayStrings over the entries of positive duration only.
uniqueDayStrings_FlownOnly(valid) ==
    Reverse(SortBy(StringBefore, Dedupe(Map(LAMBDA l : toISODateString(l.date), Filter(LAMBDA l : l.flightTime.numeral > 0, valid)))))

\* App.tsx:82-84
uniqueDayStrings(valid) ==
    Reverse(SortBy(StringBefore, Dedupe(Map(LAMBDA l : toISODateString(l.date), valid))))

RECURSIVE streakLoop(_, _, _, _, _)
\* App.tsx:92-108, the loop from index i on; run is currentStreakRun and
\* acc is streakLengths.  Returns [run, acc] after the last iteration.
streakLoop(z, days, i, run, acc) ==
    IF i > Len(days) THEN [run |-> run, acc |-> acc]
    ELSE IF run = 0 THEN streakLoop(z, days, i + 1, 1, acc)
    ELSE LET prevDate == parseDateOnly(days[i - 1])
             currDate == parseDateOnly(days[i])
             diff     == differenceInDays(z, prevDate, currDate)
         IN  IF diff = 1
             THEN streakLoop(z, days, i + 1, run + 1, acc)
             ELSE streakLoop(z, days, i + 1, 1, Append(acc, run))

\* App.tsx:88-109
streakLengths(z, days) ==
    LET r == streakLoop(z, days, 1, 0, <<>>)
    IN  IF r.run > 0 THEN Append(r.acc, r.run) ELSE r.acc

\* App.tsx:112-125
currentActiveStreak(z, now, days, lengths) ==
    IF Len(days) > 0
    THEN LET lastFlightDate == parseDateOnly(days[1])
             diffFromNow    == differenceInDays(z, now, lastFlightDate)
         IN  IF diffFromNow <= 1
             THEN (IF Len(lengths) > 0 THEN lengths[1] ELSE 0)
             ELSE 0
    ELSE 0

\* maxStreak without the test for an empty list of runs.
maxStreak_Unguarded(lengths) == MathMax(lengths)

\* App.tsx:127
maxStreak(lengths) == IF Len(lengths) > 0 THEN MathMax(lengths) ELSE 0

\* App.tsx:128
validStreaks(lengths) == Filter(LAMBDA s : s > 0, lengths)

\* App.tsx:129
minStreak(lengths) ==
    IF Len(validStreaks(lengths)) > 0 THEN MathMin(validStreaks(lengths)) ELSE 0

\* App.tsx:130
streakBreaks(lengths) ==
    IF Len(validStreaks(lengths)) - 1 > 0 THEN Len(validStreaks(lengths)) - 1 ELSE 0

RECURSIVE restLoop(_, _, _, _)
\* App.tsx:137-145, the loop from index i on.
restLoop(z, days, i, acc) ==
    IF i > Len(days) - 1 THEN acc
    ELSE LET newer == parseDateOnly(days[i])
             older == parseDateOnly(days[i + 1])
             diff  == differenceInDays(z, newer, older)
             gap   == diff - 1
         IN  restLoop(z, days, i + 1, IF gap > 0 THEN Append(acc, gap) ELSE acc)

\* App.tsx:134-145
restGaps(z, days) == restLoop(z, days, 1, <<>>)

\* App.tsx:147-148
maxRestStreak(gaps) == IF Len(gaps) > 0 THEN MathMax(gaps) ELSE 0

minRestStreak(gaps) == IF Len(gaps) > 0 THEN MathMin(gaps) ELSE 0

\* App.tsx:149
restBreaks(lengths) == Len(lengths)

\* App.tsx:112-130, 147-149 and 175-183: the streak and rest fields of the returned object.
streakFields(z, now, days, lengths, gaps) ==
    [consecutiveDays |-> currentActiveStreak(z, now, days, lengths),
     maxStreak |-> maxStreak(lengths),
     minStreak |-> minStreak(lengths),
     streakBreaks |-> streakBreaks(lengths),
     maxRestStreak |-> maxRestStreak(gaps),
     minRestStreak |-> minRestStreak(gaps),
     restBreaks |-> restBreaks(lengths)]

\* streakStats over the entries that are not dated after now.
streakStats_UpToNow(z, now, valid) ==
    LET days == uniqueDayStrings(Filter(LAMBDA l : l.date <= now, valid))
    IN  streakFields(z, now, days, streakLengths(z, days), restGaps(z, days))

\* App.tsx:79-149: the streak and rest statistics of the normal entries.
streakStats(z, now, valid) ==
    LET days == uniqueDayStrings(valid)
    IN  streakFields(z, now, days, streakLengths(z, days), restGaps(z, days))

\* App.tsx:151-194: the object the callback returns.
FlightStats(allCounts, soloCounts, multiCounts, hours, streaks, valid, sinceLastFlight, nightCount, sinceLastIncident) ==
    [flightsToday |-> allCounts.today,
     flightsThisWeek |-> allCounts.week,
     flightsThisYear |-> allCounts.year,
     flightsThisMonth |-> allCounts.month,
     hoursToday |-> hours.today,
     hoursThisWeek |-> hours.week,
     hoursThisMonth |-> hours.month,
     hoursThisYear |-> hours.year,
     soloFlightsToday |-> soloCounts.today,
     soloFlightsThisWeek |-> soloCounts.week,
     soloFlightsThisMonth |-> soloCounts.month,
     soloFlightsThisYear |-> soloCounts.year,
     multiFlightsToday |-> multiCounts.today,
     multiFlightsThisWeek |-> multiCounts.week,
     multiFlightsThisMonth |-> multiCounts.month,
     multiFlightsThisYear |-> multiCounts.year,
     daysSinceLastFlight |-> sinceLastFlight,
     consecutiveDays |-> streaks.consecutiveDays,
     maxStreak |-> streaks.maxStreak,
     minStreak |-> streaks.minStreak,
     streakBreaks |-> streaks.streakBreaks,
     maxRestStreak |-> streaks.maxRestStreak,
     minRestStreak |-> streaks.minRestStreak,
     restBreaks |-> streaks.restBreaks,
     totalFlights |-> allCounts.total,
     totalSoloFlights |-> soloCounts.total,
     totalMultiFlights |-> multiCounts.total,
     totalHours |-> sumHours(valid),
     avgDuration |-> avgDuration(valid),
     maxDuration |-> maxDuration(valid),
     minDuration |-> minDuration(valid),
     totalNightFlights |-> nightCount,
     daysSinceLastIncident |-> sinceLastIncident]

\* The callback with the streak comparisons reading the clock again instead
\* of the instant captured in now.
ComputeStats_ReadsClock(z, ls, now) ==
    LET currentYear == getFullYear(z, now)
        valid      == validLogs(ls)
        night      == nightLogs(ls)
        sortedNightLogs == sortByDateDesc(night)
        sortedLogs == sortByDateDesc(valid)
    IN  FlightStats(
            getCounts(z, now, currentYear, sortedLogs),
            getCounts(z, now, currentYear, Filter(LAMBDA l : l.type = "single", sortedLogs)),
            getCounts(z, now, currentYear, Filter(LAMBDA l : l.type = "multi", sortedLogs)),
            hoursByPeriod(z, now, currentYear, sortedLogs),
            streakStats(z, clock, valid),
            valid,
            daysSinceLastFlight(z, now, sortedLogs),
            Len(night),
            daysSinceLastIncident(z, now, sortedNightLogs))

\* App.tsx:28-195: the body of the useMemo callback, with now = new Date().
ComputeStats(z, ls, now) ==
    LET currentYear == getFullYear(z, now)
        valid      == validLogs(ls)
        night      == nightLogs(ls)
        sortedNightLogs == sortByDateDesc(night)
        sortedLogs == sortByDateDesc(valid)
    IN  FlightStats(
            getCounts(z, now, currentYear, sortedLogs),
            getCounts(z, now, currentYear, Filter(LAMBDA l : l.type = "single", sortedLogs)),
            getCounts(z, now, currentYear, Filter(LAMBDA l : l.type = "multi", sortedLogs)),
            hoursByPeriod(z, now, currentYear, sortedLogs),
            streakStats(z, now, valid),
            valid,
            daysSinceLastFlight(z, now, sortedLogs),
            Len(night),
            daysSinceLastIncident(z, now, sortedNightLogs))

(***************************************************************************)
(* FlightRecorder.tsx: the two handlers that construct a log entry.        *)
(***************************************************************************)
\* parseFloat((totalSeconds / 3600).toFixed(4)), in units of 0.0001 h.
toFixed4Hours(totalSeconds) == (totalSeconds * 10000 + 1800) \div 3600

\* handleManualSave that keeps the duration of the wheels for every type.
handleManualSave_KeepsDuration(z, now, manualDay, flightType, manualMinutes, manualSeconds, ratings) ==
    LET totalSeconds == manualMinutes * 60 + manualSeconds
        date == IF LocalDay(z, now) = manualDay
                THEN FromLocal(z, manualDay * HoursPerDay + LocalHour(z, now))
                ELSE FromLocal(z, manualDay * HoursPerDay + 12)
    IN  [date |-> date, type |-> flightType, flightTime |-> parseFloat(toFixed4Hours(totalSeconds)), ratings |-> ratings]

\* FlightRecorder.tsx:119-151.  manualDay is the local calendar day of
\* manualDate (the day picked in the calendar, today by default).
handleManualSave(z, now, manualDay, flightType, manualMinutes, manualSeconds, ratings) ==
    LET totalSeconds == IF flightType # "night"
                        THEN manualMinutes * 60 + manualSeconds ELSE 0
        date == IF LocalDay(z, now) = manualDay
                THEN FromLocal(z, manualDay * HoursPerDay + LocalHour(z, now))
                ELSE FromLocal(z, manualDay * HoursPerDay + 12)
    IN  [date |-> date, type |-> flightType, flightTime |-> parseFloat(toFixed4Hours(totalSeconds)), ratings |-> ratings]

\* FlightRecorder.tsx:153-169.  startTime is the instant the timer started,
\* 0 when there is none.
handleTimerSave(now, startTime, flightType, elapsedSeconds, ratings) ==
    [date |-> IF startTime # 0 THEN startTime ELSE now, type |-> flightType, flightTime |-> parseFloat(toFixed4Hours(elapsedSeconds)), ratings |-> ratings]

(***************************************************************************)
(* FlightRecorder.tsx: the component.  recorder holds the useState cells   *)
(* of the mounted FlightRecorder, the interval of the timer effect         *)
(* (timerRef) and the timeout of handleEndFlight; startTime 0 stands for   *)
(* null.  press holds, for each LongPressButton, the pointers that are     *)
(* down on it, its interval (timerRef), the time since startTimeRef in     *)
(* milliseconds and its progress.  The intervals of a LongPressButton are  *)
(* browser timers: the component has no cleanup, so they outlive it.       *)
(***************************************************************************)
\* FlightRecorder.tsx:71
NoRatings == [preFlight |-> 0, inFlight |-> 0, postFlight |-> 0]

\* No FlightRecorder is rendered (App.tsx:270 with view # 'record').
Unmounted ==
    [mounted |-> FALSE, mode |-> "timer", step |-> "selection", flightType |-> "single",
     startTime |-> 0, elapsedSeconds |-> 0, isLanding |-> FALSE, isRunning |-> FALSE,
     interval |-> FALSE, landing |-> FALSE, landingLeft |-> 0, manualDay |-> 0,
     manualMinutes |-> 0, manualSeconds |-> 0, ratings |-> NoRatings]

\* FlightRecorder.tsx:35-73, the state of the first render.  initialType is
\* a FlightType or "undefined"; the manual form opens on today.
FlightRecorder(z, now, mode, initialType) ==
    [mounted |-> TRUE,
     mode |-> mode,
     step |-> IF mode = "manual" THEN "manual-input"
              ELSE IF initialType # "undefined"
                   THEN (IF initialType = "night" THEN "evaluation" ELSE "timer")
                   ELSE "selection",
     flightType |-> IF initialType # "undefined" THEN initialType ELSE "single",
     startTime |-> IF mode = "timer" /\ initialType # "undefined" /\ initialType # "night"
                   THEN now ELSE 0,
     elapsedSeconds |-> 0,
     isLanding |-> FALSE,
     isRunning |-> mode = "timer" /\ initialType # "undefined" /\ initialType # "night",
     interval |-> FALSE,
     landing |-> FALSE,
     landingLeft |-> 0,
     manualDay |-> LocalDay(z, now),
     manualMinutes |-> 0,
     manualSeconds |-> 0,
     ratings |-> NoRatings]

\* FlightRecorder.tsx:112, the duration of the landing in milliseconds.
LandingMs == 1500

\* FlightRecorder.tsx:104-117, the synchronous part: r after the call.
\* landing says that the timeout is set and landingLeft when it is due.
handleEndFlight(r) ==
    IF r.flightType # "night"
    THEN [r EXCEPT !.isLanding = TRUE, !.landing = TRUE, !.landingLeft = LandingMs]
    ELSE [r EXCEPT !.isRunning = FALSE, !.step = "evaluation"]

\* FlightRecorder.tsx:107-111, the callback of the timeout.
landingTimeout(r) ==
    [r EXCEPT !.isRunning = FALSE, !.step = "evaluation", !.isLanding = FALSE, !.landing = FALSE]

\* FlightRecorder.tsx:682-684
Buttons == {"cancel", "end"}

Released == [contacts |-> 0, timerRef |-> FALSE, held |-> 0, progress |-> 0]

\* A LongPressButton after its unmount: the state and the listeners are
\* gone; the interval, the refs its callback reads and the pointers that
\* are down where it was are not.
Detached(p) == [p EXCEPT !.progress = 0]

\* FlightRecorder.tsx:704-710.  held is read by the interval callback only,
\* so it is kept at 0 while there is no interval.
stopPress(p) == [p EXCEPT !.timerRef = FALSE, !.held = 0, !.progress = 0]

\* FlightRecorder.tsx:686-702, the handler: an early return when the
\* interval is set, else the start of a measurement.
startPress(p) ==
    IF p.timerRef THEN p
    ELSE [p EXCEPT !.timerRef = TRUE, !.held = 0, !.progress = 0]

\* FlightRecorder.tsx:695, the duration of a long press in milliseconds.
LongPressMs == 2000

\* FlightRecorder.tsx:694-696, p of the interval callback.
pressProgress(elapsed) == MathMin(<<(elapsed * 100) \div LongPressMs, 100>>)

(***************************************************************************)
(* storageService.ts: the item under the key 'skylog_data_v1'.  An item is *)
(* absent (getItem returns null) or a string.  A string is held by its     *)
(* syntax: the JSON text of an array with its elements, the JSON texts     *)
(* null and {} , the empty string, or a string that is no JSON text.  A    *)
(* parsed value is [typeof, items]: an array with its items, null or an    *)
(* object.                                                                 *)
(***************************************************************************)
NoText == [syntax |-> "none", elements |-> <<>>]

\* localStorage.getItem(STORAGE_KEY) === null
NoItem == [present |-> FALSE, text |-> NoText]

EmptyArray == [typeof |-> "array", items |-> <<>>]

\* JSON.stringify of an entry: strings are quoted as they are, the number
\* is written as its shortest decimal numeral.
stringifyEntry(l) ==
    [date |-> <<"string", l.date>>,
     type |-> <<"string", l.type>>,
     flightTime |-> <<"number", l.flightTime.numeral>>,
     ratings |-> [f \in DOMAIN l.ratings |-> <<"number", l.ratings[f]>>]]

\* JSON.stringify writing the elements from the last to the first.
JSONstringify_Reversed(ls) ==
    [syntax |-> "array",
     elements |-> [i \in 1..Len(ls) |-> stringifyEntry(ls[Len(ls) + 1 - i])]]

\* JSON.stringify(logs)
JSONstringify(ls) ==
    [syntax |-> "array", elements |-> [i \in 1..Len(ls) |-> stringifyEntry(ls[i])]]

\* JSON.parse of the text of an entry.
parseEntry(e) ==
    [date |-> e.date[2], type |-> e.type[2], flightTime |-> parseFloat(e.flightTime[2]),
     ratings |-> [f \in DOMAIN e.ratings |-> e.ratings[f][2]]]

\* JSON.parse(data): [threw |-> a SyntaxError was thrown, value |-> the value].
JSONparse(text) ==
    CASE text.syntax = "array" ->
            [threw |-> FALSE,
             value |-> [typeof |-> "array",
                        items |-> [i \in 1..Len(text.elements) |-> parseEntry(text.elements[i])]]]
      [] text.syntax = "null" ->
            [threw |-> FALSE, value |-> [typeof |-> "null", items |-> <<>>]]
      [] text.syntax = "object" ->
            [threw |-> FALSE, value |-> [typeof |-> "object", items |-> <<>>]]
      [] OTHER ->
            [threw |-> TRUE, value |-> [typeof |-> "undefined", items |-> <<>>]]

\* saveLogs with a failed write that removes the item.
saveLogs_FailureClears(item, ls, room) ==
    IF Len(ls) <= room THEN [present |-> TRUE, text |-> JSONstringify(ls)]
    ELSE NoItem

\* storageService.ts:5-11.  item is what the key holds before the call and
\* quota the number of entries whose text localStorage has room for: setItem
\* throws when the text does not fit, the catch swallows the error and the
\* old item stays.
saveLogs(item, ls, room) ==
    IF Len(ls) <= room THEN [present |-> TRUE, text |-> JSONstringify(ls)]
    ELSE item

\* storageService.ts:13-21.  The value the call returns.
loadLogs(item) ==
    IF ~item.present \/ item.text.syntax = "empty" THEN EmptyArray
    ELSE LET parsed == JSONparse(item.text)
         IN  IF parsed.threw THEN EmptyArray ELSE parsed.value

(***************************************************************************)
(* Bounds of the model and the inputs the actions draw from.               *)
(***************************************************************************)
MaxLogs == 3

MaxTicks == 2

\* The clock starts at 2026-10-31T22:00Z and advances a day at a time.
StartClock == DaysFromCivil([y |-> 2026, m |-> 10, d |-> 31]) * HoursPerDay + 22

TickHours == HoursPerDay

\* The days picked in the calendar of the manual form: 2025-10-30,
\* 2026-10-30 and 2026-11-02.  The form opens on today.
PickedDays ==
    { DaysFromCivil([y |-> 2025, m |-> 10, d |-> 30]),
      DaysFromCivil([y |-> 2026, m |-> 10, d |-> 30]),
      DaysFromCivil([y |-> 2026, m |-> 11, d |-> 2]) }

ManualDays(z, now) == {LocalDay(z, now)} \cup PickedDays

\* UTC; Asia/Shanghai (UTC+8, no daylight time); America/New_York (UTC-4
\* until 2026-11-01T06:00Z, UTC-5 from then on).
Zones ==
    { [std |-> 0, dstEnd |-> 0],
      [std |-> 8, dstEnd |-> 0],
      [std |-> -5, dstEnd |-> DaysFromCivil([y |-> 2026, m |-> 11, d |-> 1]) * HoursPerDay + 6] }

\* The scroll wheels of the manual form (minutes) and the seconds the timer
\* has counted when the entry is saved.
ManualMinutes == {90}

TimerSeconds == {0}

\* Short flights of 6, 12 and 18 minutes: 0.1 h, 0.2 h and 0.3 h.
ShortMinutes == {6, 12, 18}

\* The days of the short flights: today and 2026-10-30.
ShortDays(z, now) == {LocalDay(z, now), DaysFromCivil([y |-> 2026, m |-> 10, d |-> 30])}

\* The recorder: sessions opened, seconds the timer counts, pointers on a
\* button, the step in milliseconds by which the time of the presses and
\* of the landing advances, and the values picked in the forms.
MaxSessions == 1

MaxElapsed == 2

MaxContacts == 2

TimeStep == LongPressMs \div 4

RecorderMinutes == {0, 90}

RecorderSeconds == {0, 30}

RatingStars == {1, 5}

\* What another writer of the key can leave there: nothing, the empty
\* string, a string that is no JSON text, and the JSON texts null and {}.
ForeignItems ==
    {NoItem} \cup
    {[present |-> TRUE, text |-> [syntax |-> x, elements |-> <<>>]] :
        x \in {"empty", "invalid", "null", "object"}}

(***************************************************************************)
(* The application: App.tsx.                                               *)
(***************************************************************************)
TypeOK ==
    /\ zone \in Zones
    /\ clock \in Int
    /\ quota \in 0..MaxLogs
    /\ view \in {"dashboard", "calendar", "record", "unmounted"}
    /\ statsNow \in Int
    /\ Len(logs) <= MaxLogs
    /\ DOMAIN recorder = DOMAIN Unmounted
    /\ recorder.step \in {"selection", "timer", "evaluation", "manual-input"}
    /\ recorder.elapsedSeconds \in 0..MaxElapsed
    /\ \A b \in Buttons : press[b].contacts \in 0..MaxContacts /\ press[b].progress \in 0..100

\* App.tsx:13 and :18, before the load effect has run.  The storage has
\* room for every collection the model builds.
Init ==
    /\ zone \in Zones
    /\ clock = StartClock
    /\ quota = MaxLogs
    /\ view = "dashboard"
    /\ logs = <<>>
    /\ storage = NoItem
    /\ statsNow = StartClock
    /\ stats = ComputeStats(zone, <<>>, StartClock)
    /\ recorder = Unmounted
    /\ press = [b \in Buttons |-> Released]

\* Time passes.  The memoized stats are not recomputed (useMemo depends on
\* [logs] only, App.tsx:195).
Tick ==
    /\ clock + TickHours <= StartClock + MaxTicks * TickHours
    /\ clock' = clock + TickHours
    /\ UNCHANGED <<zone, quota, view, logs, storage, stats, statsNow, recorder, press>>

\* The callback sorting the array it is given in place (logs.sort(...)
\* without the copy).
logsAfterStats_SortedInPlace(ls) ==
    SortBy(LAMBDA a, b : a.date > b.date, ls)

\* App.tsx:33-39 and :82-84: the array held in logs as the callback leaves
\* it.  filter and map build new arrays, and sort and reverse rearrange the
\* copies [...validLogs], [...nightLogs] and Array.from(...), never logs.
logsAfterStats(ls) == ls

\* handleSaveLog writing the collection of the render, without the entry.
handleSaveLog_SavesHeld(log) ==
    /\ view # "unmounted"
    /\ Len(logs) < MaxLogs
    /\ logs' = logsAfterStats(<<log>> \o logs)
    /\ storage' = saveLogs(storage, logs, quota)
    /\ view' = "calendar"
    /\ stats' = ComputeStats(zone, <<log>> \o logs, clock)
    /\ statsNow' = clock
    /\ recorder' = Unmounted
    /\ press' = [b \in Buttons |-> Detached(press[b])]
    /\ UNCHANGED <<zone, clock, quota>>

\* handleSaveLog with a memo that keeps the statistics of the collection
\* before the entry.
handleSaveLog_StaleStats(log) ==
    /\ view # "unmounted"
    /\ Len(logs) < MaxLogs
    /\ logs' = logsAfterStats(<<log>> \o logs)
    /\ storage' = saveLogs(storage, <<log>> \o logs, quota)
    /\ view' = "calendar"
    /\ statsNow' = clock
    /\ recorder' = Unmounted
    /\ press' = [b \in Buttons |-> Detached(press[b])]
    /\ UNCHANGED <<zone, clock, quota, stats>>

\* App.tsx:197-204 followed by the re-render that recomputes stats.
handleSaveLog(log) ==
    /\ view # "unmounted"
    /\ Len(logs) < MaxLogs
    /\ logs' = logsAfterStats(<<log>> \o logs)
    /\ storage' = saveLogs(storage, <<log>> \o logs, quota)
    /\ view' = "calendar"
    /\ stats' = ComputeStats(zone, <<log>> \o logs, clock)
    /\ statsNow' = clock
    /\ recorder' = Unmounted
    /\ press' = [b \in Buttons |-> Detached(press[b])]
    /\ UNCHANGED <<zone, clock, quota>>

ManualSave ==
    \E day \in ManualDays(zone, clock), t \in FlightType, mins \in ManualMinutes :
        handleSaveLog(handleManualSave(zone, clock, day, t, mins, 0, NoRatings))

TimerSave ==
    \E t \in FlightType, secs \in TimerSeconds :
        handleSaveLog(handleTimerSave(clock, clock, t, IF t = "night" THEN 0 ELSE secs, NoRatings))

\* A short flight entered in the manual form, for today or for 2026-10-30.
ShortManualSave ==
    \E day \in ShortDays(zone, clock), t \in FlightType, mins \in ShortMinutes :
        handleSaveLog(handleManualSave(zone, clock, day, t, mins, 0, NoRatings))

\* The application is started again: App.tsx:13, :18 and :23-26, and the
\* render after setLogs(loaded).  When loadLogs returns a value that is no
\* array, logs.filter throws in the render and React unmounts the tree: the
\* model keeps the state of the first render and the view "unmounted".  A
\* launch is explored when it changes more than the view: at a later
\* instant than the last computation, with a stored collection that is not
\* the one held, or into the unmounted tree.  (No action reads whether the
\* view is "dashboard" or "calendar".)
Launch ==
    LET loaded == loadLogs(storage)
        isArray == loaded.typeof = "array"
        items == IF isArray THEN loaded.items ELSE <<>>
    IN  /\ \/ statsNow # clock
           \/ logs # items
           \/ (~isArray /\ view # "unmounted")
        /\ logs' = logsAfterStats(items)
        /\ view' = (IF isArray THEN "dashboard" ELSE "unmounted")
        /\ stats' = ComputeStats(zone, items, clock)
        /\ statsNow' = clock
        /\ UNCHANGED <<zone, clock, quota, storage, recorder, press>>

\* Another writer (an earlier version, another page of the origin, the
\* user clearing site data) replaces the item under the key.
ExternalWrite ==
    \E item \in ForeignItems :
        /\ storage # item
        /\ storage' = item
        /\ UNCHANGED <<zone, clock, quota, view, logs, stats, statsNow, recorder, press>>

\* App.tsx:275-278, onCancel.
onCancel ==
    /\ view' = "dashboard"
    /\ recorder' = Unmounted
    /\ UNCHANGED <<zone, clock, quota, logs, storage, stats, statsNow>>

\* App.tsx:213-232, through the take-off animation: the recorder is
\* mounted in timer mode with the type picked on the Dashboard.  A session
\* is opened when no interval and no pointer of an earlier LongPressButton
\* is left.
FlightStart ==
    \E type \in FlightType :
        /\ view = "dashboard"
        /\ Len(logs) < MaxSessions
        /\ \A b \in Buttons : ~press[b].timerRef /\ press[b].contacts = 0
        /\ view' = "record"
        /\ recorder' = FlightRecorder(zone, clock, "timer", type)
        /\ press' = [b \in Buttons |-> Released]
        /\ UNCHANGED <<zone, clock, quota, logs, storage, stats, statsNow>>

\* App.tsx:206-211, from the Dashboard (no date).
ManualRecord ==
    /\ view = "dashboard"
    /\ Len(logs) < MaxSessions
    /\ \A b \in Buttons : ~press[b].timerRef /\ press[b].contacts = 0
    /\ view' = "record"
    /\ recorder' = FlightRecorder(zone, clock, "manual", "undefined")
    /\ press' = [b \in Buttons |-> Released]
    /\ UNCHANGED <<zone, clock, quota, logs, storage, stats, statsNow>>

\* FlightRecorder.tsx:225, a tab of the manual form.
SetFlightType ==
    \E t \in FlightType :
        /\ recorder.mounted /\ recorder.step = "manual-input"
        /\ t # recorder.flightType
        /\ recorder' = [recorder EXCEPT !.flightType = t]
        /\ UNCHANGED <<zone, clock, quota, view, logs, storage, stats, statsNow, press>>

\* FlightRecorder.tsx:191-194, a day of the calendar of the manual form.
SelectDate ==
    \E day \in ManualDays(zone, clock) :
        /\ recorder.mounted /\ recorder.step = "manual-input"
        /\ day # recorder.manualDay
        /\ recorder' = [recorder EXCEPT !.manualDay = day]
        /\ UNCHANGED <<zone, clock, quota, view, logs, storage, stats, statsNow, press>>

\* FlightRecorder.tsx:299-326, the scroll wheels, shown unless the type is
\* 'night'.
SetDuration ==
    \E m \in RecorderMinutes, sec \in RecorderSeconds :
        /\ recorder.mounted /\ recorder.step = "manual-input"
        /\ recorder.flightType # "night"
        /\ <<m, sec>> # <<recorder.manualMinutes, recorder.manualSeconds>>
        /\ recorder' = [recorder EXCEPT !.manualMinutes = m, !.manualSeconds = sec]
        /\ UNCHANGED <<zone, clock, quota, view, logs, storage, stats, statsNow, press>>

\* FlightRecorder.tsx:336-351 and :603-617 with :772-795: a star of a
\* RatingRow.  The in-flight row is not shown for the type 'night'.
SetRatings ==
    \E field \in DOMAIN NoRatings, star \in RatingStars :
        /\ recorder.mounted /\ recorder.step \in {"manual-input", "evaluation"}
        /\ recorder.flightType = "night" => field # "inFlight"
        /\ recorder.ratings[field] # star
        /\ recorder' = [recorder EXCEPT !.ratings[field] = star]
        /\ UNCHANGED <<zone, clock, quota, view, logs, storage, stats, statsNow, press>>

\* FlightRecorder.tsx:77-79, the callback of the interval of the timer.
SecondTick ==
    /\ recorder.mounted /\ recorder.interval
    /\ recorder.elapsedSeconds < MaxElapsed
    /\ recorder' = [recorder EXCEPT !.elapsedSeconds = @ + 1]
    /\ UNCHANGED <<zone, clock, quota, view, logs, storage, stats, statsNow, press>>

\* FlightRecorder.tsx:500, the play / pause button, under the overlay
\* while the landing is shown.  The update comes from a click: React
\* renders it and runs the effects on [isRunning] (FlightRecorder.tsx:75-88)
\* before the handler's event ends, so the interval follows at once.
TogglePause ==
    /\ recorder.mounted /\ recorder.step = "timer" /\ ~recorder.isLanding
    /\ recorder' = [recorder EXCEPT !.isRunning = ~@, !.interval = ~recorder.isRunning]
    /\ UNCHANGED <<zone, clock, quota, view, logs, storage, stats, statsNow, press>>

\* FlightRecorder.tsx:75-88, the effect on [isRunning] and its cleanup
\* after a render that a timeout caused (the mount at the end of the
\* take-off, the end of the landing).  React runs them in a task of their
\* own after the render is committed and painted: until then the interval
\* set by the last run of the effect is still there.
TimerEffect ==
    /\ recorder.mounted
    /\ recorder.interval # recorder.isRunning
    /\ recorder' = [recorder EXCEPT !.interval = recorder.isRunning]
    /\ UNCHANGED <<zone, clock, quota, view, logs, storage, stats, statsNow, press>>

\* FlightRecorder.tsx:107-111: the timeout of handleEndFlight fires.  The
\* timer screen and its two buttons are unmounted.
LandingTimeout ==
    /\ recorder.mounted /\ recorder.landing /\ recorder.landingLeft = 0
    /\ recorder' = landingTimeout(recorder)
    /\ press' = [b \in Buttons |-> Detached(press[b])]
    /\ UNCHANGED <<zone, clock, quota, view, logs, storage, stats, statsNow>>

\* FlightRecorder.tsx:739-744, onMouseDown / onTouchStart of a button of the
\* timer screen (under the overlay while the landing is shown).
PressStart ==
    \E b \in Buttons :
        /\ recorder.mounted /\ recorder.step = "timer" /\ ~recorder.isLanding
        /\ press[b].contacts < MaxContacts
        /\ press' = [press EXCEPT ![b] = [startPress(@) EXCEPT !.contacts = @ + 1]]
        /\ UNCHANGED <<zone, clock, quota, view, logs, storage, stats, statsNow, recorder>>

\* FlightRecorder.tsx:740-744, onMouseUp / onMouseLeave / onTouchEnd /
\* onTouchCancel of a button that is still rendered.
PressStop ==
    \E b \in Buttons :
        /\ recorder.mounted /\ recorder.step = "timer"
        /\ press[b].contacts > 0
        /\ press' = [press EXCEPT ![b] = [stopPress(@) EXCEPT !.contacts = @ - 1]]
        /\ UNCHANGED <<zone, clock, quota, view, logs, storage, stats, statsNow, recorder>>

\* A pointer is lifted from where a button was before it was unmounted:
\* the touchend / mouseup reaches no handler (FlightRecorder.tsx:739-744
\* are listeners of the rendered button).
PointerLift ==
    \E b \in Buttons :
        /\ ~(recorder.mounted /\ recorder.step = "timer")
        /\ press[b].contacts > 0
        /\ press' = [press EXCEPT ![b].contacts = @ - 1]
        /\ UNCHANGED <<zone, clock, quota, view, logs, storage, stats, statsNow, recorder>>

\* Time passes for the presses and the landing: Date.now() - startTimeRef
\* grows for every interval that is set and the timeout comes nearer.  A
\* timer that is due runs first: the callback of a button whose press has
\* lasted 2000 ms, the timeout of the landing after 1500 ms.
TimePasses ==
    /\ \/ \E b \in Buttons : press[b].timerRef
       \/ recorder.mounted /\ recorder.landing
    /\ \A b \in Buttons : press[b].timerRef => press[b].held < LongPressMs
    /\ (recorder.mounted /\ recorder.landing) => recorder.landingLeft > 0
    /\ press' = [b \in Buttons |->
                    IF press[b].timerRef THEN [press[b] EXCEPT !.held = @ + TimeStep]
                    ELSE press[b]]
    /\ recorder' = (IF recorder.mounted /\ recorder.landing
                    THEN [recorder EXCEPT !.landingLeft = @ - TimeStep]
                    ELSE recorder)
    /\ UNCHANGED <<zone, clock, quota, view, logs, storage, stats, statsNow>>

\* FlightRecorder.tsx:693-701, the callback of the interval of a button.
\* Below 100 it sets the progress of a button that is still rendered; at
\* 100 it calls stopPress and onTrigger: onCancel of App for the cancel
\* button, handleEndFlight for the end button (its setState calls do
\* nothing once the recorder is unmounted).
PressInterval ==
    \E b \in Buttons :
        LET p == pressProgress(press[b].held)
            rendered == recorder.mounted /\ recorder.step = "timer"
        IN  /\ press[b].timerRef
            /\ IF p >= 100
               THEN /\ press' = [c \in Buttons |->
                                    IF c = b THEN stopPress(press[c])
                                    ELSE IF b = "cancel" THEN Detached(press[c])
                                    ELSE press[c]]
                    /\ IF b = "cancel" THEN onCancel
                       ELSE /\ recorder' = (IF recorder.mounted THEN handleEndFlight(recorder)
                                            ELSE recorder)
                            /\ UNCHANGED <<zone, clock, quota, view, logs, storage, stats, statsNow>>
               ELSE /\ rendered
                    /\ press[b].progress # p
                    /\ press' = [press EXCEPT ![b].progress = p]
                    /\ UNCHANGED <<zone, clock, quota, view, logs, storage, stats, statsNow, recorder>>

\* FlightRecorder.tsx:638-644, the save button of the evaluation screen.
TimerSaveClick ==
    /\ recorder.mounted /\ recorder.step = "evaluation"
    /\ handleSaveLog(handleTimerSave(clock, recorder.startTime, recorder.flightType, recorder.elapsedSeconds, recorder.ratings))

\* FlightRecorder.tsx:386-392, the save button of the manual form.
ManualSaveClick ==
    /\ recorder.mounted /\ recorder.step = "manual-input"
    /\ handleSaveLog(handleManualSave(zone, clock, recorder.manualDay, recorder.flightType, recorder.manualMinutes, recorder.manualSeconds, recorder.ratings))

\* FlightRecorder.tsx:212, the back arrow of the manual form.
BackCancel ==
    /\ recorder.mounted /\ recorder.step = "manual-input"
    /\ onCancel
    /\ UNCHANGED press

\* The room localStorage has for the item changes: other data of the
\* origin is written or removed, so a setItem that threw can succeed later
\* (storageService.ts:7).
QuotaChange ==
    \E room \in 0..MaxLogs :
        /\ room # quota
        /\ quota' = room
        /\ UNCHANGED <<zone, clock, view, logs, storage, stats, statsNow, recorder, press>>

Next == Tick \/ ManualSave \/ TimerSave \/ Launch

Spec == Init /\ [][Next]_vars

\* Short flights only, for the arithmetic on durations.
DurationNext == ShortManualSave

DurationSpec == Init /\ [][DurationNext]_vars

\* The storage: a quota that may be too small for the collection, and
\* other writers of the key.
StorageInit ==
    /\ zone = [std |-> 0, dstEnd |-> 0]
    /\ clock = StartClock
    /\ quota \in 0..MaxLogs
    /\ view = "dashboard"
    /\ logs = <<>>
    /\ storage = NoItem
    /\ statsNow = StartClock
    /\ stats = ComputeStats(zone, <<>>, StartClock)
    /\ recorder = Unmounted
    /\ press = [b \in Buttons |-> Released]

StorageNext == TimerSave \/ Launch \/ ExternalWrite \/ QuotaChange

StorageSpec == StorageInit /\ [][StorageNext]_vars

\* The recorder step by step, in the zone with offset 0.
RecorderInit ==
    /\ zone = [std |-> 0, dstEnd |-> 0]
    /\ clock = StartClock
    /\ quota = MaxLogs
    /\ view = "dashboard"
    /\ logs = <<>>
    /\ storage = NoItem
    /\ statsNow = StartClock
    /\ stats = ComputeStats(zone, <<>>, StartClock)
    /\ recorder = Unmounted
    /\ press = [b \in Buttons |-> Released]

RecorderNext ==
    \/ FlightStart \/ ManualRecord \/ SetFlightType \/ SelectDate \/ SetDuration
    \/ SetRatings \/ SecondTick \/ TogglePause \/ TimerEffect \/ LandingTimeout
    \/ PressStart \/ PressStop \/ PointerLift \/ TimePasses \/ PressInterval
    \/ TimerSaveClick \/ ManualSaveClick \/ BackCancel

RecorderSpec == RecorderInit /\ [][RecorderNext]_vars

(***************************************************************************)
(* What the claims speak of, stated on the collection itself (sets of day  *)
(* numbers), independently of the loops of App.tsx.                        *)
(***************************************************************************)
NormalIdx(ls) == {i \in 1..Len(ls) : ls[i].type # "night"}

IncidentIdx(ls) == {i \in 1..Len(ls) : ls[i].type = "night"}

WithoutIncidents(ls) == SelectSeq(ls, LAMBDA l : l.type \in {"single", "multi"})

OnlyIncidents(ls) == SelectSeq(ls, LAMBDA l : l.type \notin {"single", "multi"})

\* The activity days of a collection: the day numbers of the calendar dates
\* that key its normal entries (the UTC date of each timestamp).
ActivityDays(ls) == {ls[i].date \div HoursPerDay : i \in NormalIdx(ls)}

\* The local calendar days that hold a normal entry.
LocalActivityDays(z, ls) == {LocalDay(z, ls[i].date) : i \in NormalIdx(ls)}

SetMax(S) == CHOOSE x \in S : \A y \in S : y <= x

SetMin(S) == CHOOSE x \in S : \A y \in S : x <= y

RECURSIVE RunsDesc(_)
\* The lengths of the maximal runs of consecutive days of D, latest run first.
RunsDesc(D) ==
    IF D = {} THEN <<>>
    ELSE LET top   == SetMax(D)
             start == SetMin({s \in D : \A d \in s..top : d \in D})
         IN  <<top - start + 1>> \o RunsDesc({d \in D : d < start})

RECURSIVE GapsDesc(_)
\* The numbers of empty days between neighbouring days of D, latest first,
\* neighbours without an empty day between them left out.
GapsDesc(D) ==
    IF Cardinality(D) < 2 THEN <<>>
    ELSE LET top  == SetMax(D)
             next == SetMax(D \ {top})
             gap  == top - next - 1
         IN  (IF gap > 0 THEN <<gap>> ELSE <<>>) \o GapsDesc(D \ {top})

MaxOrZero(s) == IF s = <<>> THEN 0 ELSE SetMax({s[i] : i \in 1..Len(s)})

MinOrZero(s) == IF s = <<>> THEN 0 ELSE SetMin({s[i] : i \in 1..Len(s)})

RECURSIVE SumOver(_, _)
\* The sum of the durations of the entries of ls at the indices in S, added
\* from the lowest index up.
SumOver(S, ls) ==
    IF S = {} THEN DZero
    ELSE LET i == SetMax(S)
         IN  Float64Add(SumOver(S \ {i}, ls), ls[i].flightTime.value)

\* The Monday on or before a day (day 4, 1970-01-05, was a Monday).
MondayOf(day) == day - ((day + 3) % 7)

\* Membership of an instant in a period of the reference instant now.
InPeriod(z, period, t, now) ==
    LET a == CivilFromDays(LocalDay(z, t))
        b == CivilFromDays(LocalDay(z, now))
    IN  CASE period = "today" -> a = b
          [] period = "week"  -> MondayOf(LocalDay(z, t)) = MondayOf(LocalDay(z, now))
          [] period = "month" -> a.y = b.y /\ a.m = b.m
          [] period = "year"  -> a.y = b.y
          [] period = "total" -> TRUE

CountIn(z, period, S, ls, now) ==
    Cardinality({i \in S : InPeriod(z, period, ls[i].date, now)})

\* The hours of a period: the durations of its normal entries, added in the
\* order of the collection (total) or from the latest entry back (periods).
HoursIn(z, period, ls, now) ==
    LET base == IF period = "total" THEN WithoutIncidents(ls)
                ELSE sortByDateDesc(WithoutIncidents(ls))
    IN  SumOver({i \in 1..Len(base) : InPeriod(z, period, base[i].date, now)}, base)

IncidentFields == {"totalNightFlights", "daysSinceLastIncident"}

HistoryFields ==
    {"maxStreak", "minStreak", "streakBreaks", "maxRestStreak", "minRestStreak", "restBreaks"}

Restrict(s, fields) == [f \in fields |-> s[f]]

\* The result for an empty collection.
EmptyStats ==
    [flightsToday |-> 0, flightsThisWeek |-> 0, flightsThisYear |-> 0,
     flightsThisMonth |-> 0, hoursToday |-> DZero, hoursThisWeek |-> DZero,
     hoursThisMonth |-> DZero, hoursThisYear |-> DZero, soloFlightsToday |-> 0,
     soloFlightsThisWeek |-> 0, soloFlightsThisMonth |-> 0,
     soloFlightsThisYear |-> 0, multiFlightsToday |-> 0,
     multiFlightsThisWeek |-> 0, multiFlightsThisMonth |-> 0,
     multiFlightsThisYear |-> 0, daysSinceLastFlight |-> 0,
     consecutiveDays |-> 0, maxStreak |-> 0, minStreak |-> 0,
     streakBreaks |-> 0, maxRestStreak |-> 0, minRestStreak |-> 0,
     restBreaks |-> 0, totalFlights |-> 0, totalSoloFlights |-> 0,
     totalMultiFlights |-> 0, totalHours |-> DZero,
     avgDuration |-> DZero, maxDuration |-> DZero,
     minDuration |-> DZero, totalNightFlights |-> 0, daysSinceLastIncident |-> -1]

\* The memoized statistics are those of the collection held, at the instant
\* they were computed.
StatsOfLogs == stats = ComputeStats(zone, logs, statsNow)

(***************************************************************************)
(* Claims.                                                                 *)
(***************************************************************************)

\* C1: the run lengths computed from the descending unique activity days
\* are the lengths of the maximal runs of consecutive calendar days;
\* maxStreak is the longest run, minStreak the shortest, streakBreaks the
\* number of runs minus one, and all three are 0 without a normal entry.
C1_StreakRuns ==
    LET runs == RunsDesc(ActivityDays(logs))
    IN  /\ streakLengths(zone, uniqueDayStrings(validLogs(logs))) = runs
        /\ stats.maxStreak = MaxOrZero(runs)
        /\ stats.minStreak = MinOrZero(runs)
        /\ stats.streakBreaks = (IF runs = <<>> THEN 0 ELSE Len(runs) - 1)

\* C2: consecutiveDays is the length of the run that holds the most recent
\* activity day when the whole-day difference between now and that day is
\* at most 1, and 0 otherwise, also when there is no normal entry.
C2_CurrentStreak ==
    LET D == ActivityDays(logs)
    IN  stats.consecutiveDays =
            (IF D = {} THEN 0
             ELSE IF differenceInDays(zone, statsNow, SetMax(D) * HoursPerDay) <= 1
                  THEN RunsDesc(D)[1]
                  ELSE 0)

\* C3: two normal entries fall on the same activity day exactly when their
\* timestamps fall on the same local calendar day (the day of flightsToday),
\* and normal entries on consecutive local calendar days form one streak.
C3_LocalDayKeys ==
    /\ \A i, j \in NormalIdx(logs) :
           (toISODateString(logs[i].date) = toISODateString(logs[j].date))
               <=> isSameDay(zone, logs[i].date, logs[j].date)
    /\ LET L == LocalActivityDays(zone, logs)
       IN  (L # {} /\ L = SetMin(L) .. SetMax(L)) =>
               (stats.maxStreak = Cardinality(L) /\ stats.streakBreaks = 0)

\* C4: incident isolation.  Every field but totalNightFlights and
\* daysSinceLastIncident is what the collection without its incident
\* entries yields, and those two fields are what the collection without its
\* normal entries yields: adding or removing entries of one kind changes no
\* field of the other kind.
C4_IncidentIsolation ==
    /\ Restrict(stats, DOMAIN stats \ IncidentFields)
           = Restrict(ComputeStats(zone, WithoutIncidents(logs), statsNow),
                      DOMAIN stats \ IncidentFields)
    /\ Restrict(stats, IncidentFields)
           = Restrict(ComputeStats(zone, OnlyIncidents(logs), statsNow), IncidentFields)

\* Both kinds of entry are held, and an incident falls on a day of its own.
C4_Witness ==
    /\ NormalIdx(logs) # {}
    /\ \E i \in IncidentIdx(logs) :
           \A j \in NormalIdx(logs) :
               logs[i].date \div HoursPerDay # logs[j].date \div HoursPerDay
    /\ stats.totalNightFlights > 0
    /\ stats.totalFlights > 0

\* C5: daysSinceLastIncident is -1 exactly when the collection holds no
\* incident entry; with an incident entry it is the whole-day difference
\* between now and the latest incident and is never -1.
C5_IncidentSentinel ==
    /\ (stats.daysSinceLastIncident = -1) <=> (IncidentIdx(logs) = {})
    /\ IncidentIdx(logs) # {} =>
           stats.daysSinceLastIncident =
               differenceInDays(zone, statsNow,
                                SetMax({logs[i].date : i \in IncidentIdx(logs)}))

\* C6: the rest gaps are, for each pair of neighbouring activity days, the
\* number of days between them, pairs of consecutive days left out;
\* maxRestStreak and minRestStreak are the largest and smallest gap, and 0
\* when there is none.
C6_RestGaps ==
    LET gaps == GapsDesc(ActivityDays(logs))
    IN  /\ restGaps(zone, uniqueDayStrings(validLogs(logs))) = gaps
        /\ stats.maxRestStreak = MaxOrZero(gaps)
        /\ stats.minRestStreak = MinOrZero(gaps)

\* C7: restBreaks is the number of activity runs: 0 without a normal entry,
\* 1 for a single activity day (with no rest gap), and 2, with
\* streakBreaks = 1 and one rest gap of 2, for two activity days three days
\* apart.
C7_RestBreaks ==
    LET D == ActivityDays(logs)
    IN  /\ stats.restBreaks = Len(streakLengths(zone, uniqueDayStrings(validLogs(logs))))
        /\ D = {} => stats.restBreaks = 0
        /\ Cardinality(D) = 1 =>
               (stats.restBreaks = 1 /\ stats.maxRestStreak = 0 /\ stats.minRestStreak = 0)
        /\ (Cardinality(D) = 2 /\ SetMax(D) - SetMin(D) = 3) =>
               /\ stats.restBreaks = 2
               /\ stats.streakBreaks = 1
               /\ stats.maxRestStreak = 2
               /\ stats.minRestStreak = 2

\* C8: maxStreak, minStreak, streakBreaks, maxRestStreak, minRestStreak and
\* restBreaks depend on the collection only: recomputed at another instant
\* for the same collection they are the same, while consecutiveDays may
\* drop to 0.
C8_HistoryIndependentOfNow ==
    [][logs' = logs => Restrict(stats', HistoryFields) = Restrict(stats, HistoryFields)]_vars

\* A run of two days stands in the history and has lapsed at the instant of
\* a later computation.
C8_Witness ==
    /\ statsNow > StartClock
    /\ stats.maxStreak >= 2
    /\ stats.consecutiveDays = 0

\* C9: for an empty collection every count and sum is 0, the duration
\* extremes and the streak and rest statistics are 0, daysSinceLastFlight
\* is 0 and daysSinceLastIncident is -1, at every instant.
C9_EmptyInput == logs = <<>> => stats = EmptyStats

\* Nothing is stored and the statistics were computed at a later launch.
C9_Witness == logs = <<>> /\ statsNow > StartClock /\ stats = EmptyStats

\* C10: for each period and each population the count is the number of
\* entries of the population whose timestamp falls in the period of now
\* (today: the same local date; week: the same Monday-to-Sunday week;
\* month: the same month of the same year; year: the same year), and each
\* period's hours are the sum of the durations of the normal entries in it.
C10_PeriodMembership ==
    LET all   == NormalIdx(logs)
        solo  == {i \in 1..Len(logs) : logs[i].type = "single"}
        multi == {i \in 1..Len(logs) : logs[i].type = "multi"}
        n(period, S) == CountIn(zone, period, S, logs, statsNow)
        h(period)    == HoursIn(zone, period, logs, statsNow)
    IN  /\ stats.flightsToday = n("today", all)
        /\ stats.flightsThisWeek = n("week", all)
        /\ stats.flightsThisMonth = n("month", all)
        /\ stats.flightsThisYear = n("year", all)
        /\ stats.totalFlights = n("total", all)
        /\ stats.soloFlightsToday = n("today", solo)
        /\ stats.soloFlightsThisWeek = n("week", solo)
        /\ stats.soloFlightsThisMonth = n("month", solo)
        /\ stats.soloFlightsThisYear = n("year", solo)
        /\ stats.totalSoloFlights = n("total", solo)
        /\ stats.multiFlightsToday = n("today", multi)
        /\ stats.multiFlightsThisWeek = n("week", multi)
        /\ stats.multiFlightsThisMonth = n("month", multi)
        /\ stats.multiFlightsThisYear = n("year", multi)
        /\ stats.totalMultiFlights = n("total", multi)
        /\ stats.hoursToday = h("today")
        /\ stats.hoursThisWeek = h("week")
        /\ stats.hoursThisMonth = h("month")
        /\ stats.hoursThisYear = h("year")
        /\ stats.totalHours = h("total")

\* The periods are told apart: one entry today, a second in the week but in
\* another month, a third in another year; two are solo and one shared.
C10_Witness ==
    /\ stats.flightsToday = 1
    /\ stats.flightsThisMonth = 1
    /\ stats.flightsThisWeek = 2
    /\ stats.flightsThisYear = 2
    /\ stats.totalFlights = 3
    /\ stats.totalSoloFlights = 2
    /\ stats.totalMultiFlights = 1
    /\ Float64Less(stats.hoursToday, stats.hoursThisWeek)
    /\ Float64Less(stats.hoursThisYear, stats.totalHours)

\* The values of the durations of the normal entries of ls.
DurationValues(ls) ==
    {WithoutIncidents(ls)[i].flightTime.value : i \in 1..Len(WithoutIncidents(ls))}

\* avgDuration is totalHours divided by the number of normal entries, and
\* maxDuration and minDuration are the extreme durations.
DurationAggregates ==
    LET normal == WithoutIncidents(logs)
    IN  IF normal = <<>>
        THEN stats.avgDuration = DZero /\ stats.maxDuration = DZero /\ stats.minDuration = DZero
        ELSE /\ stats.avgDuration = Float64DivInt(stats.totalHours, Len(normal))
             /\ stats.maxDuration \in DurationValues(logs)
             /\ stats.minDuration \in DurationValues(logs)
             /\ \A v \in DurationValues(logs) :
                    ~Float64Less(stats.maxDuration, v) /\ ~Float64Less(v, stats.minDuration)

\* C11: over the normal entries avgDuration is totalHours divided by their
\* number, maxDuration and minDuration are the largest and the smallest
\* duration, maxDuration >= avgDuration >= minDuration when there is an
\* entry, and all three are 0 when there is none.
C11_DurationAggregates ==
    /\ DurationAggregates
    /\ WithoutIncidents(logs) # <<>> =>
          /\ ~Float64Less(stats.maxDuration, stats.avgDuration)
          /\ ~Float64Less(stats.avgDuration, stats.minDuration)

\* The dates of the normal entries of ls.
NormalDates(ls) == {ls[i].date : i \in NormalIdx(ls)}

\* C12: daysSinceLastFlight is the whole-day difference between now and
\* the latest date among the normal entries, wherever that entry stands in
\* the collection, and 0 when there is no normal entry.
C12_DaysSinceLastFlight ==
    stats.daysSinceLastFlight =
        IF NormalDates(logs) = {} THEN 0
        ELSE differenceInDays(zone, statsNow, SetMax(NormalDates(logs)))

\* The latest normal entry is not the first of the collection, and it is
\* at least a day old.
C12_Witness ==
    /\ Len(logs) >= 2
    /\ logs[1].type # "night"
    /\ logs[1].date < SetMax(NormalDates(logs))
    /\ stats.daysSinceLastFlight >= 1

\* The collection ls with its entries in the order p, a permutation of the
\* indices.
Permuted(ls, p) == [i \in 1..Len(ls) |-> ls[p[i]]]

\* C13: the statistics do not depend on the order of the entries: every
\* permutation of the collection gives, for the same now, the same value in
\* every field.
C13_OrderIndependent ==
    \A p \in Permutations(1..Len(logs)) :
        ComputeStats(zone, Permuted(logs, p), statsNow) = stats

HourFields ==
    {"hoursToday", "hoursThisWeek", "hoursThisMonth", "hoursThisYear",
     "totalHours", "avgDuration", "maxDuration", "minDuration"}

IntegerFields == DOMAIN EmptyStats \ HourFields

\* v is the numeral of a finite double.
IsDouble(v) == DOMAIN v = 1..Limbs /\ \A j \in 1..Limbs : v[j] \in 0..(Pow2(LimbBits) - 1)

\* C16: the computation is total: whatever the collection and now, it ends
\* and returns a complete FlightStats record, every field a finite number.
C16_Total ==
    /\ DOMAIN stats = DOMAIN EmptyStats
    /\ \A f \in IntegerFields : -Infinity < stats[f] /\ stats[f] < Infinity
    /\ \A f \in HourFields : IsDouble(stats[f])

\* A computation over a full collection with an incident, two runs and a
\* rest gap, where every branch of the callback has run.
C16_Witness ==
    /\ Len(logs) = MaxLogs
    /\ stats.totalNightFlights >= 1
    /\ stats.streakBreaks >= 1
    /\ stats.maxRestStreak >= 1

\* C17: loadLogs returns an empty collection on every failure: when the
\* item is absent, or is a string that does not decode to a collection (no
\* JSON text, or the JSON text of something that is no array, such as null
\* or an object), the value returned is an empty array.
C17_LoadFailsEmpty ==
    (~storage.present \/ storage.text.syntax # "array") => loadLogs(storage) = EmptyArray

\* C18: a failed write is not propagated: a step that saves an entry puts
\* it in front of the collection held and shows the calendar whether or not
\* the write succeeds, and a write that fails leaves the stored item as it
\* was.
C18_SaveFailureContained ==
    [][Len(logs') = Len(logs) + 1 =>
          /\ Tail(logs') = logs
          /\ view' = "calendar"
          /\ (Len(logs') > quota => storage' = storage)]_vars

\* After a write that succeeded and one that failed: the calendar is shown,
\* the collection held has more entries than there is room for, and the
\* item stored is the earlier collection.
C18_Witness ==
    /\ view = "calendar"
    /\ Len(logs) > quota
    /\ storage.present
    /\ storage.text.syntax = "array"
    /\ Len(storage.text.elements) = quota
    /\ quota >= 1

StreakFields ==
    {"consecutiveDays", "maxStreak", "minStreak", "streakBreaks",
     "maxRestStreak", "minRestStreak", "restBreaks"}

CountFields ==
    {"flightsToday", "flightsThisWeek", "flightsThisMonth", "flightsThisYear",
     "soloFlightsToday", "soloFlightsThisWeek", "soloFlightsThisMonth",
     "soloFlightsThisYear", "multiFlightsToday", "multiFlightsThisWeek",
     "multiFlightsThisMonth", "multiFlightsThisYear", "totalFlights",
     "totalSoloFlights", "totalMultiFlights", "totalNightFlights"}

\* The collection with the duration of entry i replaced by 0.
WithZeroDuration(ls, i) == [ls EXCEPT ![i].flightTime = parseFloat(0)]

\* C20: a normal entry of duration 0 makes its day an activity day like any
\* other normal entry: replacing the duration of any normal entry by 0
\* changes none of the streak and rest statistics and none of the counts.
C20_ZeroDurationCounts ==
    \A i \in 1..Len(logs) :
        (logs[i].type # "night" /\ logs[i].flightTime.numeral > 0) =>
            LET zeroed == ComputeStats(zone, WithZeroDuration(logs, i), statsNow)
            IN  \A f \in StreakFields \cup CountFields : zeroed[f] = stats[f]

\* A normal entry of positive duration is alone on its day, a day that
\* ends one run of activity days and is followed by a rest gap.
C20_Witness ==
    /\ stats.streakBreaks >= 1
    /\ stats.maxRestStreak >= 1
    /\ \E i \in 1..Len(logs) :
          /\ logs[i].type # "night"
          /\ logs[i].flightTime.numeral > 0
          /\ \A j \in 1..Len(logs) :
                (j # i /\ logs[j].type # "night") =>
                    toISODateString(logs[j].date) # toISODateString(logs[i].date)

\* The collection without its entry at index i.
WithoutEntry(ls, i) == SubSeq(ls, 1, i - 1) \o SubSeq(ls, i + 1, Len(ls))

\* C21: the entries of one calendar day (the local date of the timestamps)
\* are one activity day: a normal entry on a day that holds another normal
\* entry adds nothing to the streak and rest statistics, and a collection
\* whose normal entries all lie on one day has one run of length 1 and no
\* rest gap.
C21_SameDayCollapse ==
    /\ \A i, j \in NormalIdx(logs) :
           (i # j /\ isSameDay(zone, logs[i].date, logs[j].date)) =>
               LET without == ComputeStats(zone, WithoutEntry(logs, i), statsNow)
               IN  \A f \in StreakFields : without[f] = stats[f]
    /\ Cardinality(LocalActivityDays(zone, logs)) = 1 =>
           /\ stats.maxStreak = 1
           /\ stats.minStreak = 1
           /\ stats.streakBreaks = 0
           /\ stats.restBreaks = 1
           /\ stats.maxRestStreak = 0
           /\ stats.minRestStreak = 0

\* C22: whenever the collection held changes (the load, each saved entry)
\* the statistics are computed again from the new collection alone, at the
\* instant of the change, and in every state after it they are the
\* statistics of the collection held: nothing of an earlier computation
\* remains.
C22_RecomputedOnChange ==
    [][/\ logs' # logs => statsNow' = clock'
       /\ stats' = ComputeStats(zone', logs', statsNow')]_vars

\* The collection has changed three times, the last time after the clock
\* moved, and the statistics count all three entries.
C22_Witness ==
    /\ Len(logs) = MaxLogs
    /\ statsNow > StartClock
    /\ statsNow = clock
    /\ stats.totalFlights + stats.totalNightFlights = MaxLogs
    /\ stats.totalFlights >= 1

\* C23: the statistics shown follow the clock: whenever the Dashboard is
\* shown, the statistics handed to it are those of the collection held,
\* evaluated at the current instant, also after the calendar day, week,
\* month or year has changed without an entry being added.
C23_FollowsClock ==
    view = "dashboard" => stats = ComputeStats(zone, logs, clock)

\* C24: the collection only grows and stays in step with the storage.  A
\* step that changes the collection held is the load of a launch or a
\* handleSaveLog; a handleSaveLog puts the new entry in front of the
\* entries held, which stay as they were and in their order; and when its
\* write succeeds the stored collection is the collection held, whatever
\* the storage held before (nothing, another writer's text, or the
\* collection of an earlier write after which a write had failed).
C24_GrowsInStep ==
    [][logs' # logs =>
          \/ /\ storage' = storage
             /\ logs' = (IF loadLogs(storage).typeof = "array" THEN loadLogs(storage).items ELSE <<>>)
          \/ /\ Len(logs') = Len(logs) + 1
             /\ Tail(logs') = logs
             /\ (Len(logs') <= quota =>
                    loadLogs(storage') = [typeof |-> "array", items |-> logs'])]_vars

\* A write of two or more entries has just succeeded.
C24_Witness ==
    /\ view = "calendar"
    /\ Len(logs) >= 2
    /\ Len(logs) <= quota
    /\ loadLogs(storage) = [typeof |-> "array", items |-> logs]
    /\ \E i, j \in 1..Len(logs) : logs[i].type # logs[j].type

\* C28: in every state the application reaches (the load, timer entries,
\* manual entries for any day the calendar of the form offers),
\* daysSinceLastFlight is at least 0, and daysSinceLastIncident is at
\* least 0 whenever the collection holds an incident.
C28_DaysSinceNonNegative ==
    /\ stats.daysSinceLastFlight >= 0
    /\ stats.totalNightFlights > 0 => stats.daysSinceLastIncident >= 0

\* a <= b on doubles.
Float64AtMost(a, b) == ~Float64Less(b, a)

\* C29: period containment and population partition.  For the counts of
\* all normal, solo and shared entries and for the sums of hours, the value
\* of today is at most the value of the week and of the month, the value of
\* the month at most that of the year, and the value of the year at most
\* the total; in every period the solo and the shared count add up to the
\* count of all normal entries; and totalFlights and totalNightFlights add
\* up to the number of entries.
C29_PeriodContainment ==
    /\ \A pre \in {"flights", "soloFlights", "multiFlights"} :
          LET today == stats[pre \o "Today"]
              week  == stats[pre \o "ThisWeek"]
              month == stats[pre \o "ThisMonth"]
              year  == stats[pre \o "ThisYear"]
              total == stats[CASE pre = "flights" -> "totalFlights"
                               [] pre = "soloFlights" -> "totalSoloFlights"
                               [] OTHER -> "totalMultiFlights"]
          IN  today <= week /\ today <= month /\ month <= year /\ year <= total
    /\ Float64AtMost(stats.hoursToday, stats.hoursThisWeek)
    /\ Float64AtMost(stats.hoursToday, stats.hoursThisMonth)
    /\ Float64AtMost(stats.hoursThisMonth, stats.hoursThisYear)
    /\ Float64AtMost(stats.hoursThisYear, stats.totalHours)
    /\ stats.soloFlightsToday + stats.multiFlightsToday = stats.flightsToday
    /\ stats.soloFlightsThisWeek + stats.multiFlightsThisWeek = stats.flightsThisWeek
    /\ stats.soloFlightsThisMonth + stats.multiFlightsThisMonth = stats.flightsThisMonth
    /\ stats.soloFlightsThisYear + stats.multiFlightsThisYear = stats.flightsThisYear
    /\ stats.totalSoloFlights + stats.totalMultiFlights = stats.totalFlights
    /\ stats.totalFlights + stats.totalNightFlights = Len(logs)

\* C30: the streak and rest outputs agree with one another: minStreak is
\* at most maxStreak; consecutiveDays is 0 or one of the run lengths, so at
\* most maxStreak; minRestStreak is at most maxRestStreak; maxRestStreak is
\* positive exactly when streakBreaks is (every break between two runs is
\* a rest gap of at least a day, and every rest gap a break); and
\* restBreaks is streakBreaks + 1 when there is a normal entry and 0 when
\* there is none.
C30_StreakRestConsistent ==
    LET lengths == streakLengths(zone, uniqueDayStrings(validLogs(logs)))
    IN  /\ stats.minStreak <= stats.maxStreak
        /\ \/ stats.consecutiveDays = 0
           \/ \E k \in 1..Len(lengths) : lengths[k] = stats.consecutiveDays
        /\ stats.consecutiveDays <= stats.maxStreak
        /\ stats.minRestStreak <= stats.maxRestStreak
        /\ (stats.maxRestStreak > 0) <=> (stats.streakBreaks > 0)
        /\ stats.restBreaks = (IF NormalIdx(logs) # {} THEN stats.streakBreaks + 1 ELSE 0)

\* C25: every entry the recorder hands to onSave is well-formed, whatever
\* the recorder operations before the save (the type picked or switched,
\* the timer started, paused, resumed and ended, minutes, seconds and date
\* picked, stars clicked): its type is 'single', 'multi' or 'night', its
\* flightTime is not negative, each of its three ratings is an integer in
\* 0..5, and an entry of type 'night' has flightTime 0.
C25_WellFormedEntry ==
    \A i \in 1..Len(logs) :
        /\ logs[i].type \in FlightType
        /\ logs[i].flightTime.numeral >= 0
        /\ ~Float64Less(logs[i].flightTime.value, DZero)
        /\ DOMAIN logs[i].ratings = DOMAIN NoRatings
        /\ \A f \in DOMAIN NoRatings : logs[i].ratings[f] \in 0..5
        /\ logs[i].type = "night" => logs[i].flightTime = parseFloat(0)

\* An incident saved from the manual form after the type was switched: its
\* in-flight rating was given while the form was on a normal type, on a day
\* picked in the calendar.
C25_Witness ==
    \E i \in 1..Len(logs) :
        /\ logs[i].type = "night"
        /\ logs[i].ratings.inFlight = 5
        /\ logs[i].ratings.preFlight = 1
        /\ logs[i].date # clock

\* C26: the timer counts only while it runs.  While a recorder is mounted,
\* elapsedSeconds changes by a tick of 1 only, never while isRunning is
\* false (paused) and never once the step is 'evaluation'; and the
\* flightTime handleTimerSave hands over is the elapsedSeconds shown on the
\* evaluation screen, in hours.  This under every interleaving of the
\* ticks, pause and resume, the timeout of handleEndFlight and the save.
C26_TimerCountsWhileRunning ==
    [][/\ (recorder.mounted /\ recorder'.mounted
              /\ recorder'.elapsedSeconds # recorder.elapsedSeconds) =>
                 /\ recorder'.elapsedSeconds = recorder.elapsedSeconds + 1
                 /\ recorder.isRunning
                 /\ recorder.step # "evaluation"
       /\ (recorder.mounted /\ recorder.step = "evaluation" /\ Len(logs') = Len(logs) + 1) =>
                 logs'[1].flightTime = parseFloat(toFixed4Hours(recorder.elapsedSeconds))]_vars

\* The step calls onCancel from the cancel button (not from the back arrow
\* of the manual form).
CancelFired ==
    /\ view' = "dashboard" /\ view # "dashboard"
    /\ ~(recorder.mounted /\ recorder.step = "manual-input")

\* The step calls handleEndFlight on the mounted recorder.
EndFired == recorder.mounted /\ ~recorder.isLanding /\ recorder'.isLanding

\* C27: a long-press button fires its action only after a continuous
\* press of at least 2 seconds and at most once per press.  A step that
\* fires the action of a button finds a pointer down on it and its press
\* timer set at least 2000 ms ago, and leaves the timer cleared and the
\* progress at 0; a release before that clears the timer, resets the
\* progress and fires nothing; a press-start while the timer is set leaves
\* the measurement as it is.
C27_LongPress ==
    [][/\ CancelFired =>
             /\ press["cancel"].contacts > 0
             /\ press["cancel"].timerRef /\ press["cancel"].held >= LongPressMs
             /\ ~press'["cancel"].timerRef /\ press'["cancel"].progress = 0
       /\ EndFired =>
             /\ press["end"].contacts > 0
             /\ press["end"].timerRef /\ press["end"].held >= LongPressMs
             /\ ~press'["end"].timerRef /\ press'["end"].progress = 0
       /\ \A b \in Buttons :
             /\ (press'[b].contacts < press[b].contacts /\ recorder.mounted /\ recorder.step = "timer") =>
                    /\ ~press'[b].timerRef /\ press'[b].progress = 0
                    /\ ~CancelFired /\ ~EndFired
             /\ (press'[b].contacts > press[b].contacts /\ press[b].timerRef) =>
                    /\ press'[b].timerRef
                    /\ press'[b].held = press[b].held
                    /\ press'[b].progress = press[b].progress]_vars

====
